---- MODULE Spec2Model ----
(***************************************************************************)
(* Model of the soroban-ajo contract (contracts/ajo): the group lifecycle  *)
(* state machine over the persistent store.  One action per public         *)
(* contract function; each action is the whole handler, i.e. the guard     *)
(* cascade that picks the result code followed by every store write of the *)
(* chosen path.  require_auth is modelled by the caller argument being the *)
(* authorised principal.  Events are not stored and are left out.          *)
(* A call that returns an error before its first write changes nothing at  *)
(* all; its return value in a state is the value of the handler's          *)
(* <function>_result operator in that state.                               *)
(***************************************************************************)
EXTENDS Integers, Sequences, FiniteSets, TLC

VARIABLES
    now,                  \* env.ledger().timestamp()
    admin,                \* instance storage "ADMIN"
    paused,               \* the pause flag read by pausable::ensure_not_paused
    group_counter,        \* instance storage "GCOUNTER"
    groups,               \* ("GROUP", group_id)            -> Group
    contributions,        \* ("CONTRIB", group, cycle, m)   -> bool
    contribution_details, \* ("CONTREC", group, cycle, m)   -> ContributionRecord
    payout_received,      \* ("PAYOUT", group, m)           -> bool
    member_penalties,     \* ("PENALTY", group, m)          -> MemberPenaltyRecord
    penalty_pools,        \* ("PENPOOL", group, cycle)      -> i128
    group_metadata,       \* ("METADATA", group)            -> GroupMetadata
    refund_requests,      \* ("REFREQ", group)              -> RefundRequest
    refund_votes,         \* ("REFVOTE", group, m)          -> RefundVote
    refund_records,       \* ("REFUND", group, m)           -> RefundRecord
    last                  \* the last call that returned Ok or wrote to the store

store == <<admin, paused, group_counter, groups, contributions,
           contribution_details, payout_received, member_penalties,
           penalty_pools, group_metadata, refund_requests, refund_votes,
           refund_records>>

vars == <<now, admin, paused, group_counter, groups, contributions,
          contribution_details, payout_received, member_penalties,
          penalty_pools, group_metadata, refund_requests, refund_votes,
          refund_records, last>>

(***************************************************************************)
(* Program constants.                                                      *)
(***************************************************************************)
VOTING_PERIOD == 604800

REFUND_APPROVAL_THRESHOLD == 51

MAX_NAME_LENGTH == 50

MAX_DESCRIPTION_LENGTH == 250

MAX_RULES_LENGTH == 1000

MAX_GRACE_PERIOD == 604800

MIN_MEMBERS == 2

MAX_MEMBERS_LIMIT == 100

(***************************************************************************)
(* Bounds of the model and the inputs the calls are drawn from.            *)
(***************************************************************************)
\* the clock ticks second by second up to MaxFine seconds ...
MaxFine == 3

\* ... and jumps by whole voting periods at most MaxEpochs times
MaxEpochs == 1

Address == {"a1", "a2", "a3"}

Creators == {"a1"}

Joiners == {"a1", "a2"}

Requesters == {"a1", "a3"}

Executors == {"a3"}

Admins == {"a3"}

\* the specification of several groups creates at most MaxGroups groups
MaxGroups == 2

ManyGroupIds == 1..MaxGroups

GroupIds == {1}

TimeSteps == {1, VOTING_PERIOD}

\* create_group arguments: <<contribution_amount, cycle_duration,
\* max_members, grace_period, penalty_rate>>
GroupParams ==
    { <<100, 1, 2, 0, 5>>,
      <<0, 1, 2, 0, 5>> }

\* create_group arguments of the specification of contribution timing: a
\* grace period of 0 and of 2 seconds, a penalty that rounds down
\* (30 * 5 div 100 = 1) and a penalty rate of 0
TimingParams ==
    { <<100, 1, 2, 0, 5>>,
      <<30, 1, 2, 2, 5>>,
      <<100, 1, 2, 2, 0>> }

\* set_group_metadata arguments: the lengths of name, description, rules
MetadataInputs == { <<50, 250, 1000>>, <<51, 0, 0>> }

NoAddress == "none"

EmptyMap == [x \in {} |-> TRUE]

Put(f, k, v) == [x \in (DOMAIN f) \cup {k} |-> IF x = k THEN v ELSE f[x]]

Range(s) == { s[i] : i \in DOMAIN s }

(***************************************************************************)
(* storage.rs readers                                                      *)
(***************************************************************************)
has_group(g) == g \in DOMAIN groups

\* has_contributed answering for any cycle of the group
has_contributed_any_cycle(g, cycle, m) ==
    \E k \in DOMAIN contributions :
        k[1] = g /\ k[3] = m /\ contributions[k]

has_contributed(g, cycle, m) ==
    IF <<g, cycle, m>> \in DOMAIN contributions
    THEN contributions[<<g, cycle, m>>] ELSE FALSE

has_received_payout(g, m) ==
    IF <<g, m>> \in DOMAIN payout_received
    THEN payout_received[<<g, m>>] ELSE FALSE

get_cycle_penalty_pool(g, cycle) ==
    IF <<g, cycle>> \in DOMAIN penalty_pools
    THEN penalty_pools[<<g, cycle>>] ELSE 0

has_refund_request(g) == g \in DOMAIN refund_requests

has_voted(g, m) == <<g, m>> \in DOMAIN refund_votes

\* add_to_penalty_pool storing the penalty in place of the sum
add_to_penalty_pool_overwriting(g, cycle, penalty) ==
    Put(penalty_pools, <<g, cycle>>, penalty)

\* the store after add_to_penalty_pool: the pool read, the penalty added
add_to_penalty_pool(g, cycle, penalty) ==
    Put(penalty_pools, <<g, cycle>>, get_cycle_penalty_pool(g, cycle) + penalty)

\* get_next_group_id returning the counter read, not the counter stored
get_next_group_id_before_increment == group_counter

\* the id get_next_group_id returns (and stores as the new counter)
get_next_group_id == group_counter + 1

\* get_cycle_contributions building the list from the last member back
get_cycle_contributions_reversed(g, cycle, members) ==
    [i \in 1..Len(members) |->
        <<members[Len(members) + 1 - i],
          has_contributed(g, cycle, members[Len(members) + 1 - i])>>]

get_cycle_contributions(g, cycle, members) ==
    [i \in 1..Len(members) |-> <<members[i], has_contributed(g, cycle, members[i])>>]

(***************************************************************************)
(* utils.rs and pausable.rs (called by contract.rs)                        *)
(***************************************************************************)
is_member(members, a) == a \in Range(members)

validate_group_params(amount, duration, max_members) ==
    IF amount = 0 THEN "ContributionAmountZero"
    ELSE IF amount < 0 THEN "ContributionAmountNegative"
    ELSE IF duration = 0 THEN "CycleDurationZero"
    ELSE IF max_members < MIN_MEMBERS THEN "MaxMembersBelowMinimum"
    ELSE IF max_members > MAX_MEMBERS_LIMIT THEN "MaxMembersAboveLimit"
    ELSE "Ok"

validate_penalty_params(grace, rate) ==
    IF grace > MAX_GRACE_PERIOD THEN "InvalidGracePeriod"
    ELSE IF rate > 100 THEN "InvalidPenaltyRate"
    ELSE "Ok"

get_cycle_end(group) == group.cycle_start_time + group.cycle_duration

get_grace_period_end(group) == get_cycle_end(group) + group.grace_period

is_within_grace_period(group, t) ==
    t >= get_cycle_end(group) /\ t <= get_grace_period_end(group)

\* <<is_late, penalty_amount>>; past the grace period it is <<TRUE, 0>>
check_contribution_timing(group, t) ==
    IF t < get_cycle_end(group) THEN <<FALSE, 0>>
    ELSE IF t <= get_grace_period_end(group)
         THEN <<TRUE, (group.contribution_amount * group.penalty_rate) \div 100>>
         ELSE <<TRUE, 0>>

all_members_contributed(g, group) ==
    \A i \in 1..Len(group.members) :
        has_contributed(g, group.current_cycle, group.members[i])

calculate_payout_amount(group) == group.contribution_amount * Len(group.members)

default_penalty_record ==
    [late_count |-> 0, on_time_count |-> 0, total_penalties |-> 0,
     reliability_score |-> 100]

get_member_penalty_or_default(g, m) ==
    IF <<g, m>> \in DOMAIN member_penalties
    THEN member_penalties[<<g, m>>] ELSE default_penalty_record

update_member_penalty_record(g, m, is_late, penalty) ==
    LET old == get_member_penalty_or_default(g, m)
        lc  == IF is_late THEN old.late_count + 1 ELSE old.late_count
        oc  == IF is_late THEN old.on_time_count ELSE old.on_time_count + 1
    IN  Put(member_penalties, <<g, m>>,
            [late_count |-> lc, on_time_count |-> oc,
             total_penalties |-> old.total_penalties + penalty,
             reliability_score |-> (oc * 100) \div (oc + lc)])

ensure_not_paused == IF paused THEN "ContractPaused" ELSE "Ok"

(***************************************************************************)
(* The record of a call: the function, the group, the principal (the       *)
(* caller, or the recipient of a payout), the result and an amount (the    *)
(* total paid by execute_payout).                                          *)
(***************************************************************************)
Call(op, g, who, res, amt) ==
    [op |-> op, gid |-> g, who |-> who, res |-> res, amt |-> amt]

\* a call that failed before writing is not recorded
Record(call) == IF call.res = "Ok" THEN call ELSE last

Init ==
    /\ now = 0
    /\ admin = NoAddress
    /\ paused = FALSE
    /\ group_counter = 0
    /\ groups = EmptyMap
    /\ contributions = EmptyMap
    /\ contribution_details = EmptyMap
    /\ payout_received = EmptyMap
    /\ member_penalties = EmptyMap
    /\ penalty_pools = EmptyMap
    /\ group_metadata = EmptyMap
    /\ refund_requests = EmptyMap
    /\ refund_votes = EmptyMap
    /\ refund_records = EmptyMap
    /\ last = Call("init", 0, NoAddress, "Ok", 0)

(***************************************************************************)
(* The ledger clock: non-decreasing, advanced between calls.               *)
(***************************************************************************)
advance_time(d) ==
    /\ now' = now + d
    /\ UNCHANGED <<store, last>>

(***************************************************************************)
(* initialize, pause, unpause                                              *)
(***************************************************************************)
initialize_result == IF admin # NoAddress THEN "AlreadyInitialized" ELSE "Ok"

initialize(a) ==
    LET res == initialize_result IN
    /\ last' = Record(Call("initialize", 0, a, res, 0))
    /\ admin' = IF res = "Ok" THEN a ELSE admin
    /\ UNCHANGED <<now, paused, group_counter, groups, contributions,
                   contribution_details, payout_received, member_penalties,
                   penalty_pools, group_metadata, refund_requests,
                   refund_votes, refund_records>>

pause ==
    LET res == IF admin = NoAddress THEN "UnauthorizedPause" ELSE "Ok" IN
    /\ last' = Record(Call("pause", 0, admin, res, 0))
    /\ paused' = IF res = "Ok" THEN TRUE ELSE paused
    /\ UNCHANGED <<now, admin, group_counter, groups, contributions,
                   contribution_details, payout_received, member_penalties,
                   penalty_pools, group_metadata, refund_requests,
                   refund_votes, refund_records>>

unpause ==
    LET res == IF admin = NoAddress THEN "UnauthorizedUnpause" ELSE "Ok" IN
    /\ last' = Record(Call("unpause", 0, admin, res, 0))
    /\ paused' = IF res = "Ok" THEN FALSE ELSE paused
    /\ UNCHANGED <<now, admin, group_counter, groups, contributions,
                   contribution_details, payout_received, member_penalties,
                   penalty_pools, group_metadata, refund_requests,
                   refund_votes, refund_records>>

(***************************************************************************)
(* create_group                                                            *)
(***************************************************************************)
create_group_result(amount, duration, max_members, grace, rate) ==
    IF validate_group_params(amount, duration, max_members) # "Ok"
    THEN validate_group_params(amount, duration, max_members)
    ELSE IF validate_penalty_params(grace, rate) # "Ok"
    THEN validate_penalty_params(grace, rate)
    ELSE ensure_not_paused

create_group(creator, amount, duration, max_members, grace, rate) ==
    LET res == create_group_result(amount, duration, max_members, grace, rate)
        group_id == get_next_group_id
        group == [id |-> group_id,
                  creator |-> creator,
                  contribution_amount |-> amount,
                  cycle_duration |-> duration,
                  max_members |-> max_members,
                  members |-> <<creator>>,
                  current_cycle |-> 1,
                  payout_index |-> 0,
                  created_at |-> now,
                  cycle_start_time |-> now,
                  is_complete |-> FALSE,
                  grace_period |-> grace,
                  penalty_rate |-> rate,
                  state |-> "Active"]
    IN
    /\ last' = Record(Call("create_group", IF res = "Ok" THEN group_id ELSE 0,
                    creator, res, 0))
    /\ IF res = "Ok"
       THEN /\ group_counter' = group_id
            /\ groups' = Put(groups, group_id, group)
       ELSE UNCHANGED <<group_counter, groups>>
    /\ UNCHANGED <<now, admin, paused, contributions, contribution_details,
                   payout_received, member_penalties, penalty_pools,
                   group_metadata, refund_requests, refund_votes,
                   refund_records>>

(***************************************************************************)
(* join_group                                                              *)
(***************************************************************************)
\* join_group without the check of membership
join_group_result_no_member_check(member, g) ==
    IF ensure_not_paused # "Ok" THEN "ContractPaused"
    ELSE IF ~has_group(g) THEN "GroupNotFound"
    ELSE IF groups[g].is_complete THEN "GroupComplete"
    ELSE IF Len(groups[g].members) >= groups[g].max_members THEN "MaxMembersExceeded"
    ELSE "Ok"

\* join_group refusing only a list longer than max_members
join_group_result_full_plus_one(member, g) ==
    IF ensure_not_paused # "Ok" THEN "ContractPaused"
    ELSE IF ~has_group(g) THEN "GroupNotFound"
    ELSE IF groups[g].is_complete THEN "GroupComplete"
    ELSE IF is_member(groups[g].members, member) THEN "AlreadyMember"
    ELSE IF Len(groups[g].members) > groups[g].max_members THEN "MaxMembersExceeded"
    ELSE "Ok"

join_group_result(member, g) ==
    IF ensure_not_paused # "Ok" THEN "ContractPaused"
    ELSE IF ~has_group(g) THEN "GroupNotFound"
    ELSE IF groups[g].is_complete THEN "GroupComplete"
    ELSE IF is_member(groups[g].members, member) THEN "AlreadyMember"
    ELSE IF Len(groups[g].members) >= groups[g].max_members THEN "MaxMembersExceeded"
    ELSE "Ok"

join_group(member, g) ==
    LET res == join_group_result(member, g) IN
    /\ last' = Record(Call("join_group", g, member, res, 0))
    /\ IF res = "Ok"
       THEN groups' = [groups EXCEPT ![g].members = Append(@, member)]
       ELSE UNCHANGED groups
    /\ UNCHANGED <<now, admin, paused, group_counter, contributions,
                   contribution_details, payout_received, member_penalties,
                   penalty_pools, group_metadata, refund_requests,
                   refund_votes, refund_records>>

(***************************************************************************)
(* contribute                                                              *)
(***************************************************************************)
\* contribute without the check of the Cancelled state
contribute_result_no_cancelled_check(member, g) ==
    IF ensure_not_paused # "Ok" THEN "ContractPaused"
    ELSE IF ~has_group(g) THEN "GroupNotFound"
    ELSE IF groups[g].is_complete THEN "GroupComplete"
    ELSE IF ~is_member(groups[g].members, member) THEN "NotMember"
    ELSE IF has_contributed(g, groups[g].current_cycle, member) THEN "AlreadyContributed"
    ELSE IF /\ check_contribution_timing(groups[g], now)[1]
            /\ check_contribution_timing(groups[g], now)[2] = 0
            /\ ~is_within_grace_period(groups[g], now)
    THEN "GracePeriodExpired"
    ELSE "Ok"

\* contribute without the check of an existing contribution
contribute_result_no_repeat_check(member, g) ==
    IF ensure_not_paused # "Ok" THEN "ContractPaused"
    ELSE IF ~has_group(g) THEN "GroupNotFound"
    ELSE IF groups[g].state = "Cancelled" THEN "GroupCancelled"
    ELSE IF groups[g].is_complete THEN "GroupComplete"
    ELSE IF ~is_member(groups[g].members, member) THEN "NotMember"
    ELSE IF /\ check_contribution_timing(groups[g], now)[1]
            /\ check_contribution_timing(groups[g], now)[2] = 0
            /\ ~is_within_grace_period(groups[g], now)
    THEN "GracePeriodExpired"
    ELSE "Ok"

\* contribute without the rejection past the grace period
contribute_result_no_expiry_check(member, g) ==
    IF ensure_not_paused # "Ok" THEN "ContractPaused"
    ELSE IF ~has_group(g) THEN "GroupNotFound"
    ELSE IF groups[g].state = "Cancelled" THEN "GroupCancelled"
    ELSE IF groups[g].is_complete THEN "GroupComplete"
    ELSE IF ~is_member(groups[g].members, member) THEN "NotMember"
    ELSE IF has_contributed(g, groups[g].current_cycle, member) THEN "AlreadyContributed"
    ELSE "Ok"

contribute_result(member, g) ==
    IF ensure_not_paused # "Ok" THEN "ContractPaused"
    ELSE IF ~has_group(g) THEN "GroupNotFound"
    ELSE IF groups[g].state = "Cancelled" THEN "GroupCancelled"
    ELSE IF groups[g].is_complete THEN "GroupComplete"
    ELSE IF ~is_member(groups[g].members, member) THEN "NotMember"
    ELSE IF has_contributed(g, groups[g].current_cycle, member) THEN "AlreadyContributed"
    ELSE IF /\ check_contribution_timing(groups[g], now)[1]
            /\ check_contribution_timing(groups[g], now)[2] = 0
            /\ ~is_within_grace_period(groups[g], now)
    THEN "GracePeriodExpired"
    ELSE "Ok"

contribute(member, g) ==
    LET res == contribute_result(member, g) IN
    /\ last' = Record(Call("contribute", g, member, res, 0))
    /\ IF res = "Ok"
       THEN LET group == groups[g]
                cycle == group.current_cycle
                timing == check_contribution_timing(group, now)
                is_late == timing[1]
                penalty_amount == timing[2]
                penalised == is_late /\ penalty_amount > 0
            IN
            /\ contribution_details' =
                   Put(contribution_details, <<g, cycle, member>>,
                       [has_paid |-> TRUE, timestamp |-> now,
                        is_late |-> is_late, penalty_amount |-> penalty_amount])
            /\ contributions' = Put(contributions, <<g, cycle, member>>, TRUE)
            /\ penalty_pools' =
                   IF penalised
                   THEN add_to_penalty_pool(g, cycle, penalty_amount)
                   ELSE penalty_pools
            /\ member_penalties' =
                   IF penalised
                   THEN update_member_penalty_record(g, member, TRUE, penalty_amount)
                   ELSE update_member_penalty_record(g, member, FALSE, 0)
       ELSE UNCHANGED <<contributions, contribution_details, penalty_pools,
                        member_penalties>>
    /\ UNCHANGED <<now, admin, paused, group_counter, groups, payout_received,
                   group_metadata, refund_requests, refund_votes,
                   refund_records>>

(***************************************************************************)
(* execute_payout                                                          *)
(***************************************************************************)
\* execute_payout without the check that every member has contributed
execute_payout_result_no_contribution_check(g) ==
    IF ensure_not_paused # "Ok" THEN "ContractPaused"
    ELSE IF ~has_group(g) THEN "GroupNotFound"
    ELSE IF groups[g].state = "Cancelled" THEN "GroupCancelled"
    ELSE IF groups[g].is_complete THEN "GroupComplete"
    ELSE IF now < get_grace_period_end(groups[g]) THEN "OutsideCycleWindow"
    ELSE IF ~(groups[g].payout_index + 1 \in 1..Len(groups[g].members)) THEN "NoMembers"
    ELSE "Ok"

\* execute_payout without the check of the end of the grace period
execute_payout_result_no_window_check(g) ==
    IF ensure_not_paused # "Ok" THEN "ContractPaused"
    ELSE IF ~has_group(g) THEN "GroupNotFound"
    ELSE IF groups[g].state = "Cancelled" THEN "GroupCancelled"
    ELSE IF groups[g].is_complete THEN "GroupComplete"
    ELSE IF ~all_members_contributed(g, groups[g]) THEN "IncompleteContributions"
    ELSE IF ~(groups[g].payout_index + 1 \in 1..Len(groups[g].members)) THEN "NoMembers"
    ELSE "Ok"

\* execute_payout without the check of is_complete
execute_payout_result_no_complete_check(g) ==
    IF ensure_not_paused # "Ok" THEN "ContractPaused"
    ELSE IF ~has_group(g) THEN "GroupNotFound"
    ELSE IF groups[g].state = "Cancelled" THEN "GroupCancelled"
    ELSE IF ~all_members_contributed(g, groups[g]) THEN "IncompleteContributions"
    ELSE IF now < get_grace_period_end(groups[g]) THEN "OutsideCycleWindow"
    ELSE IF ~(groups[g].payout_index + 1 \in 1..Len(groups[g].members)) THEN "NoMembers"
    ELSE "Ok"

execute_payout_result(g) ==
    IF ensure_not_paused # "Ok" THEN "ContractPaused"
    ELSE IF ~has_group(g) THEN "GroupNotFound"
    ELSE IF groups[g].state = "Cancelled" THEN "GroupCancelled"
    ELSE IF groups[g].is_complete THEN "GroupComplete"
    ELSE IF ~all_members_contributed(g, groups[g]) THEN "IncompleteContributions"
    ELSE IF now < get_grace_period_end(groups[g]) THEN "OutsideCycleWindow"
    ELSE IF ~(groups[g].payout_index + 1 \in 1..Len(groups[g].members)) THEN "NoMembers"
    ELSE "Ok"

\* the amount paid without the penalty pool
total_payout_base_only(g, group) == calculate_payout_amount(group)

\* the amount paid: the base payout plus the penalty pool of the cycle
total_payout(g, group) ==
    LET base_payout == calculate_payout_amount(group)
        penalty_bonus == get_cycle_penalty_pool(g, group.current_cycle)
    IN  base_payout + penalty_bonus

\* the rotation with the payout position wrapping round to the first member
advance_rotation_wrapping(group) ==
    LET idx == group.payout_index + 1 IN
    IF idx >= Len(group.members)
    THEN [group EXCEPT !.payout_index = idx % Len(group.members),
                       !.is_complete = TRUE,
                       !.state = "Complete"]
    ELSE [group EXCEPT !.payout_index = idx,
                       !.current_cycle = @ + 1,
                       !.cycle_start_time = now]

\* the rotation without the restart of the contribution window
advance_rotation_same_window(group) ==
    LET idx == group.payout_index + 1 IN
    IF idx >= Len(group.members)
    THEN [group EXCEPT !.payout_index = idx,
                       !.is_complete = TRUE,
                       !.state = "Complete"]
    ELSE [group EXCEPT !.payout_index = idx,
                       !.current_cycle = @ + 1]

\* the rotation advancing the cycle counter on the final payout as well
advance_rotation_counting_final(group) ==
    LET idx == group.payout_index + 1 IN
    IF idx >= Len(group.members)
    THEN [group EXCEPT !.payout_index = idx,
                       !.current_cycle = @ + 1,
                       !.is_complete = TRUE,
                       !.state = "Complete"]
    ELSE [group EXCEPT !.payout_index = idx,
                       !.current_cycle = @ + 1,
                       !.cycle_start_time = now]

\* the rotation that never marks the group complete
advance_rotation_without_completion(group) ==
    LET idx == group.payout_index + 1 IN
    IF idx >= Len(group.members)
    THEN [group EXCEPT !.payout_index = idx]
    ELSE [group EXCEPT !.payout_index = idx,
                       !.current_cycle = @ + 1,
                       !.cycle_start_time = now]

\* the group record stored by a successful execute_payout
advance_rotation(group) ==
    LET idx == group.payout_index + 1 IN
    IF idx >= Len(group.members)
    THEN [group EXCEPT !.payout_index = idx,
                       !.is_complete = TRUE,
                       !.state = "Complete"]
    ELSE [group EXCEPT !.payout_index = idx,
                       !.current_cycle = @ + 1,
                       !.cycle_start_time = now]

execute_payout(g) ==
    LET res == execute_payout_result(g) IN
    IF res = "Ok"
    THEN LET group == groups[g]
             payout_recipient == group.members[group.payout_index + 1]
         IN
         /\ last' = Record(Call("execute_payout", g, payout_recipient, res,
                                total_payout(g, group)))
         /\ payout_received' = Put(payout_received, <<g, payout_recipient>>, TRUE)
         /\ groups' = [groups EXCEPT ![g] = advance_rotation(group)]
         /\ UNCHANGED <<now, admin, paused, group_counter, contributions,
                        contribution_details, member_penalties, penalty_pools,
                        group_metadata, refund_requests, refund_votes,
                        refund_records>>
    ELSE UNCHANGED vars

(***************************************************************************)
(* The queries get_contribution_status and get_group_status: they read the *)
(* store and write nothing, so they are operators on the state.            *)
(***************************************************************************)
get_contribution_status_result(g, cycle) ==
    IF ~has_group(g) THEN "GroupNotFound" ELSE "Ok"

\* the list returned for a stored group: <<member, has contributed>>
get_contribution_status(g, cycle) ==
    get_cycle_contributions(g, cycle, groups[g].members)

get_group_status_result(g) ==
    IF ~has_group(g) THEN "GroupNotFound" ELSE "Ok"

\* the GroupStatus returned for a stored group
get_group_status(g) ==
    LET group == groups[g]
        current_time == now
        cycle_end_time == group.cycle_start_time + group.cycle_duration
        cycle_contributions ==
            get_cycle_contributions(g, group.current_cycle, group.members)
        received == SelectSeq(cycle_contributions, LAMBDA e : e[2])
        pending == SelectSeq(cycle_contributions, LAMBDA e : ~e[2])
    IN
    [group_id |-> group.id,
     current_cycle |-> group.current_cycle,
     has_next_recipient |-> ~group.is_complete,
     next_recipient |->
         IF group.is_complete THEN group.creator
         ELSE IF group.payout_index < Len(group.members)
              THEN group.members[group.payout_index + 1]
              ELSE group.creator,
     contributions_received |-> Len(received),
     total_members |-> Len(group.members),
     pending_contributors |-> [i \in 1..Len(pending) |-> pending[i][1]],
     is_complete |-> group.is_complete,
     is_cycle_active |-> current_time < cycle_end_time,
     cycle_start_time |-> group.cycle_start_time,
     cycle_end_time |-> cycle_end_time,
     current_time |-> current_time,
     cycle_penalty_pool |-> get_cycle_penalty_pool(g, group.current_cycle),
     is_in_grace_period |-> is_within_grace_period(group, current_time),
     grace_period_end_time |-> get_grace_period_end(group)]

get_member_penalty_record_result(g, m) ==
    IF ~has_group(g) THEN "GroupNotFound"
    ELSE IF ~is_member(groups[g].members, m) THEN "NotMember"
    ELSE "Ok"

\* the MemberPenaltyRecord returned for a member of a stored group: the
\* record stored, or the default one
get_member_penalty_record(g, m) ==
    IF <<g, m>> \in DOMAIN member_penalties
    THEN member_penalties[<<g, m>>]
    ELSE [late_count |-> 0, on_time_count |-> 0, total_penalties |-> 0,
          reliability_score |-> 100]

(***************************************************************************)
(* set_group_metadata: the caller is the group's creator (require_auth on  *)
(* group.creator); the metadata is modelled by the lengths of its fields.  *)
(***************************************************************************)
set_group_metadata_result(g, meta) ==
    IF \/ meta[1] > MAX_NAME_LENGTH
       \/ meta[2] > MAX_DESCRIPTION_LENGTH
       \/ meta[3] > MAX_RULES_LENGTH
    THEN "MetadataTooLong"
    ELSE IF ~has_group(g) THEN "GroupNotFound"
    ELSE "Ok"

set_group_metadata(g, meta) ==
    LET res == set_group_metadata_result(g, meta) IN
    /\ last' = Record(Call("set_group_metadata", g,
                    IF has_group(g) THEN groups[g].creator ELSE NoAddress, res, 0))
    /\ group_metadata' = IF res = "Ok" THEN Put(group_metadata, g, meta)
                         ELSE group_metadata
    /\ UNCHANGED <<now, admin, paused, group_counter, groups, contributions,
                   contribution_details, payout_received, member_penalties,
                   penalty_pools, refund_requests, refund_votes,
                   refund_records>>

(***************************************************************************)
(* The refund loop shared by cancel_group, execute_refund and              *)
(* emergency_refund: one RefundRecord per member of the list that has      *)
(* contributed to the group's current cycle.                               *)
(***************************************************************************)
current_contributors(g, group) ==
    { m \in Range(group.members) : has_contributed(g, group.current_cycle, m) }

\* the refund loop without the has_contributed test: every member refunded
process_refunds_every_member(g, group, reason) ==
    LET paid == Range(group.members) IN
    [k \in (DOMAIN refund_records) \cup { <<g, m>> : m \in paid } |->
        IF k[1] = g /\ k[2] \in paid
        THEN [amount |-> group.contribution_amount, timestamp |-> now,
              reason |-> reason]
        ELSE refund_records[k]]

\* the refund loop writing the record of a member under every group id
process_refunds_any_group(g, group, reason) ==
    LET paid == current_contributors(g, group) IN
    [k \in (DOMAIN refund_records) \cup { <<g, m>> : m \in paid } |->
        IF k[2] \in paid
        THEN [amount |-> group.contribution_amount, timestamp |-> now,
              reason |-> reason]
        ELSE refund_records[k]]

process_refunds(g, group, reason) ==
    LET paid == current_contributors(g, group) IN
    [k \in (DOMAIN refund_records) \cup { <<g, m>> : m \in paid } |->
        IF k[1] = g /\ k[2] \in paid
        THEN [amount |-> group.contribution_amount, timestamp |-> now,
              reason |-> reason]
        ELSE refund_records[k]]

(***************************************************************************)
(* cancel_group                                                            *)
(***************************************************************************)
\* cancel_group without the check that no payout has been made
cancel_group_result_no_payout_check(creator, g) ==
    IF ensure_not_paused # "Ok" THEN "ContractPaused"
    ELSE IF ~has_group(g) THEN "GroupNotFound"
    ELSE IF groups[g].creator # creator THEN "OnlyCreatorCanCancel"
    ELSE IF groups[g].state = "Cancelled" THEN "GroupCancelled"
    ELSE IF groups[g].state = "Complete" THEN "GroupComplete"
    ELSE "Ok"

cancel_group_result(creator, g) ==
    IF ensure_not_paused # "Ok" THEN "ContractPaused"
    ELSE IF ~has_group(g) THEN "GroupNotFound"
    ELSE IF groups[g].creator # creator THEN "OnlyCreatorCanCancel"
    ELSE IF groups[g].state = "Cancelled" THEN "GroupCancelled"
    ELSE IF groups[g].state = "Complete" THEN "GroupComplete"
    ELSE IF groups[g].payout_index > 0 THEN "CannotCancelAfterPayout"
    ELSE "Ok"

cancel_group(creator, g) ==
    LET res == cancel_group_result(creator, g) IN
    /\ last' = Record(Call("cancel_group", g, creator, res, 0))
    /\ IF res = "Ok"
       THEN /\ refund_records' = process_refunds(g, groups[g], "CreatorCancellation")
            /\ groups' = [groups EXCEPT ![g].state = "Cancelled"]
       ELSE UNCHANGED <<refund_records, groups>>
    /\ UNCHANGED <<now, admin, paused, group_counter, contributions,
                   contribution_details, payout_received, member_penalties,
                   penalty_pools, group_metadata, refund_requests,
                   refund_votes>>

(***************************************************************************)
(* request_refund                                                          *)
(***************************************************************************)
\* request_refund taking a request that was executed as no request
request_refund_result_executed_is_absent(requester, g) ==
    IF ensure_not_paused # "Ok" THEN "ContractPaused"
    ELSE IF ~has_group(g) THEN "GroupNotFound"
    ELSE IF ~is_member(groups[g].members, requester) THEN "NotMember"
    ELSE IF groups[g].state = "Cancelled" THEN "GroupCancelled"
    ELSE IF groups[g].state = "Complete" THEN "GroupComplete"
    ELSE IF now <= get_grace_period_end(groups[g]) THEN "CycleNotExpired"
    ELSE IF has_refund_request(g) /\ ~refund_requests[g].executed
    THEN "RefundRequestExists"
    ELSE "Ok"

\* request_refund accepting a call at the end of the grace period itself
request_refund_result_at_grace_end(requester, g) ==
    IF ensure_not_paused # "Ok" THEN "ContractPaused"
    ELSE IF ~has_group(g) THEN "GroupNotFound"
    ELSE IF ~is_member(groups[g].members, requester) THEN "NotMember"
    ELSE IF groups[g].state = "Cancelled" THEN "GroupCancelled"
    ELSE IF groups[g].state = "Complete" THEN "GroupComplete"
    ELSE IF now < get_grace_period_end(groups[g]) THEN "CycleNotExpired"
    ELSE IF has_refund_request(g) THEN "RefundRequestExists"
    ELSE "Ok"

request_refund_result(requester, g) ==
    IF ensure_not_paused # "Ok" THEN "ContractPaused"
    ELSE IF ~has_group(g) THEN "GroupNotFound"
    ELSE IF ~is_member(groups[g].members, requester) THEN "NotMember"
    ELSE IF groups[g].state = "Cancelled" THEN "GroupCancelled"
    ELSE IF groups[g].state = "Complete" THEN "GroupComplete"
    ELSE IF now <= get_grace_period_end(groups[g]) THEN "CycleNotExpired"
    ELSE IF has_refund_request(g) THEN "RefundRequestExists"
    ELSE "Ok"

request_refund(requester, g) ==
    LET res == request_refund_result(requester, g) IN
    /\ last' = Record(Call("request_refund", g, requester, res, 0))
    /\ refund_requests' =
           IF res = "Ok"
           THEN Put(refund_requests, g,
                    [requester |-> requester, created_at |-> now,
                     voting_deadline |-> now + VOTING_PERIOD,
                     votes_for |-> 0, votes_against |-> 0,
                     executed |-> FALSE, approved |-> FALSE])
           ELSE refund_requests
    /\ UNCHANGED <<now, admin, paused, group_counter, groups, contributions,
                   contribution_details, payout_received, member_penalties,
                   penalty_pools, group_metadata, refund_votes, refund_records>>

(***************************************************************************)
(* vote_refund                                                             *)
(***************************************************************************)
\* vote_refund without the check of an earlier vote
vote_refund_result_no_repeat_check(voter, g) ==
    IF ensure_not_paused # "Ok" THEN "ContractPaused"
    ELSE IF ~has_group(g) THEN "GroupNotFound"
    ELSE IF ~is_member(groups[g].members, voter) THEN "NotMember"
    ELSE IF ~has_refund_request(g) THEN "NoRefundRequest"
    ELSE IF now > refund_requests[g].voting_deadline THEN "VotingPeriodEnded"
    ELSE "Ok"

\* vote_refund without the check of membership
vote_refund_result_no_member_check(voter, g) ==
    IF ensure_not_paused # "Ok" THEN "ContractPaused"
    ELSE IF ~has_group(g) THEN "GroupNotFound"
    ELSE IF ~has_refund_request(g) THEN "NoRefundRequest"
    ELSE IF has_voted(g, voter) THEN "AlreadyVoted"
    ELSE IF now > refund_requests[g].voting_deadline THEN "VotingPeriodEnded"
    ELSE "Ok"

\* vote_refund without the check of the voting deadline
vote_refund_result_no_deadline_check(voter, g) ==
    IF ensure_not_paused # "Ok" THEN "ContractPaused"
    ELSE IF ~has_group(g) THEN "GroupNotFound"
    ELSE IF ~is_member(groups[g].members, voter) THEN "NotMember"
    ELSE IF ~has_refund_request(g) THEN "NoRefundRequest"
    ELSE IF has_voted(g, voter) THEN "AlreadyVoted"
    ELSE "Ok"

vote_refund_result(voter, g) ==
    IF ensure_not_paused # "Ok" THEN "ContractPaused"
    ELSE IF ~has_group(g) THEN "GroupNotFound"
    ELSE IF ~is_member(groups[g].members, voter) THEN "NotMember"
    ELSE IF ~has_refund_request(g) THEN "NoRefundRequest"
    ELSE IF has_voted(g, voter) THEN "AlreadyVoted"
    ELSE IF now > refund_requests[g].voting_deadline THEN "VotingPeriodEnded"
    ELSE "Ok"

vote_refund(voter, g, in_favor) ==
    LET res == vote_refund_result(voter, g) IN
    /\ last' = Record(Call("vote_refund", g, voter, res, IF in_favor THEN 1 ELSE 0))
    /\ IF res = "Ok"
       THEN /\ refund_votes' = Put(refund_votes, <<g, voter>>,
                                   [in_favor |-> in_favor, timestamp |-> now])
            /\ refund_requests' =
                   IF in_favor
                   THEN [refund_requests EXCEPT ![g].votes_for = @ + 1]
                   ELSE [refund_requests EXCEPT ![g].votes_against = @ + 1]
       ELSE UNCHANGED <<refund_votes, refund_requests>>
    /\ UNCHANGED <<now, admin, paused, group_counter, groups, contributions,
                   contribution_details, payout_received, member_penalties,
                   penalty_pools, group_metadata, refund_records>>

(***************************************************************************)
(* execute_refund                                                          *)
(***************************************************************************)
\* the approval taken as 100 when no vote was cast
approval_percentage_unanimous_when_empty(request) ==
    IF request.votes_for + request.votes_against > 0
    THEN (request.votes_for * 100) \div (request.votes_for + request.votes_against)
    ELSE 100

approval_percentage(request) ==
    IF request.votes_for + request.votes_against > 0
    THEN (request.votes_for * 100) \div (request.votes_for + request.votes_against)
    ELSE 0

\* execute_refund accepting a call at the voting deadline itself
execute_refund_result_at_deadline(g) ==
    IF ensure_not_paused # "Ok" THEN "ContractPaused"
    ELSE IF ~has_group(g) THEN "GroupNotFound"
    ELSE IF ~has_refund_request(g) THEN "NoRefundRequest"
    ELSE IF refund_requests[g].executed THEN "RefundAlreadyExecuted"
    ELSE IF now < refund_requests[g].voting_deadline THEN "VotingPeriodActive"
    ELSE IF approval_percentage(refund_requests[g]) < REFUND_APPROVAL_THRESHOLD
    THEN "RefundNotApproved"
    ELSE "Ok"

\* execute_refund without the check of the executed flag
execute_refund_result_no_executed_check(g) ==
    IF ensure_not_paused # "Ok" THEN "ContractPaused"
    ELSE IF ~has_group(g) THEN "GroupNotFound"
    ELSE IF ~has_refund_request(g) THEN "NoRefundRequest"
    ELSE IF now <= refund_requests[g].voting_deadline THEN "VotingPeriodActive"
    ELSE IF approval_percentage(refund_requests[g]) < REFUND_APPROVAL_THRESHOLD
    THEN "RefundNotApproved"
    ELSE "Ok"

execute_refund_result(g) ==
    IF ensure_not_paused # "Ok" THEN "ContractPaused"
    ELSE IF ~has_group(g) THEN "GroupNotFound"
    ELSE IF ~has_refund_request(g) THEN "NoRefundRequest"
    ELSE IF refund_requests[g].executed THEN "RefundAlreadyExecuted"
    ELSE IF now <= refund_requests[g].voting_deadline THEN "VotingPeriodActive"
    ELSE IF approval_percentage(refund_requests[g]) < REFUND_APPROVAL_THRESHOLD
    THEN "RefundNotApproved"
    ELSE "Ok"

\* the request stored on the RefundNotApproved path before the error returns
rejected_request(request) ==
    [request EXCEPT !.executed = TRUE, !.approved = FALSE]

execute_refund(executor, g) ==
    LET res == execute_refund_result(g) IN
    /\ last' = IF res = "RefundNotApproved"
               THEN Call("execute_refund", g, executor, res, 0)
               ELSE Record(Call("execute_refund", g, executor, res, 0))
    /\ IF res = "RefundNotApproved"
       THEN /\ refund_requests' =
                   [refund_requests EXCEPT ![g] = rejected_request(@)]
            /\ UNCHANGED <<refund_records, groups>>
       ELSE IF res = "Ok"
       THEN /\ refund_records' = process_refunds(g, groups[g], "MemberVote")
            /\ refund_requests' =
                   [refund_requests EXCEPT ![g].executed = TRUE,
                                           ![g].approved = TRUE]
            /\ groups' = [groups EXCEPT ![g].state = "Cancelled"]
       ELSE UNCHANGED <<refund_records, refund_requests, groups>>
    /\ UNCHANGED <<now, admin, paused, group_counter, contributions,
                   contribution_details, payout_received, member_penalties,
                   penalty_pools, group_metadata, refund_votes>>

(***************************************************************************)
(* emergency_refund                                                        *)
(***************************************************************************)
\* emergency_refund without the comparison of the caller with the admin
emergency_refund_result_any_caller(caller, g) ==
    IF admin = NoAddress THEN "Unauthorized"
    ELSE IF ~has_group(g) THEN "GroupNotFound"
    ELSE IF groups[g].state = "Cancelled" THEN "GroupCancelled"
    ELSE "Ok"

emergency_refund_result(caller, g) ==
    IF admin = NoAddress THEN "Unauthorized"
    ELSE IF caller # admin THEN "Unauthorized"
    ELSE IF ~has_group(g) THEN "GroupNotFound"
    ELSE IF groups[g].state = "Cancelled" THEN "GroupCancelled"
    ELSE "Ok"

emergency_refund(caller, g) ==
    LET res == emergency_refund_result(caller, g) IN
    /\ last' = Record(Call("emergency_refund", g, caller, res, 0))
    /\ IF res = "Ok"
       THEN /\ refund_records' = process_refunds(g, groups[g], "EmergencyRefund")
            /\ groups' = [groups EXCEPT ![g].state = "Cancelled"]
       ELSE UNCHANGED <<refund_records, groups>>
    /\ UNCHANGED <<now, admin, paused, group_counter, contributions,
                   contribution_details, payout_received, member_penalties,
                   penalty_pools, group_metadata, refund_requests,
                   refund_votes>>

(***************************************************************************)
(* The specifications.  Spec: every function of the group lifecycle and of *)
(* refund governance, with the pause gate open.  SpecPause adds pause,     *)
(* unpause and set_group_metadata, with the clock kept within the first    *)
(* cycle windows.                                                          *)
(***************************************************************************)
TimeOk(t) ==
    \/ t <= MaxFine
    \/ t - now = VOTING_PERIOD /\ t <= MaxEpochs * VOTING_PERIOD + MaxFine

Next ==
    \/ \E d \in TimeSteps : TimeOk(now + d) /\ advance_time(d)
    \/ \E a \in Admins : initialize(a)
    \/ \E c \in Creators, p \in GroupParams :
          /\ group_counter + 1 \in GroupIds
          /\ create_group(c, p[1], p[2], p[3], p[4], p[5])
    \/ \E m \in Joiners, g \in GroupIds : join_group(m, g)
    \/ \E m \in Address, g \in GroupIds : contribute(m, g)
    \/ \E g \in GroupIds : execute_payout(g)
    \/ \E c \in Address, g \in GroupIds : cancel_group(c, g)
    \/ \E m \in Requesters, g \in GroupIds : request_refund(m, g)
    \/ \E m \in Address, g \in GroupIds, f \in BOOLEAN : vote_refund(m, g, f)
    \/ \E e \in Executors, g \in GroupIds : execute_refund(e, g)
    \/ \E a \in Address, g \in GroupIds : emergency_refund(a, g)

Spec == Init /\ [][Next]_vars

NextPause ==
    \/ now + 1 <= MaxFine /\ advance_time(1)
    \/ \E a \in Admins : initialize(a)
    \/ pause
    \/ unpause
    \/ \E c \in Creators, p \in GroupParams :
          /\ group_counter + 1 \in GroupIds
          /\ create_group(c, p[1], p[2], p[3], p[4], p[5])
    \/ \E m \in Joiners, g \in GroupIds : join_group(m, g)
    \/ \E m \in Address, g \in GroupIds : contribute(m, g)
    \/ \E g \in GroupIds : execute_payout(g)
    \/ \E g \in GroupIds, meta \in MetadataInputs : set_group_metadata(g, meta)
    \/ \E c \in Address, g \in GroupIds : cancel_group(c, g)
    \/ \E m \in Requesters, g \in GroupIds : request_refund(m, g)
    \/ \E m \in Address, g \in GroupIds, f \in BOOLEAN : vote_refund(m, g, f)
    \/ \E e \in Executors, g \in GroupIds : execute_refund(e, g)
    \/ \E a \in Address, g \in GroupIds : emergency_refund(a, g)

SpecPause == Init /\ [][NextPause]_vars

\* The contribution cycle alone (create, join, contribute, payout), over
\* groups with and without a grace period, second by second until the
\* grace period of the first cycle has run out.
NextTiming ==
    \/ now + 1 <= MaxFine + 1 /\ advance_time(1)
    \/ \E c \in Creators, p \in TimingParams :
          /\ group_counter + 1 \in GroupIds
          /\ create_group(c, p[1], p[2], p[3], p[4], p[5])
    \/ \E m \in Joiners, g \in GroupIds : join_group(m, g)
    \/ \E m \in Address, g \in GroupIds : contribute(m, g)
    \/ \E g \in GroupIds : execute_payout(g)

SpecTiming == Init /\ [][NextTiming]_vars

\* several groups side by side: any address creates, with valid and invalid
\* arguments; members join, contribute and are paid
NextGroups ==
    \/ now + 1 <= MaxFine /\ advance_time(1)
    \/ \E c \in Joiners, p \in GroupParams :
          /\ group_counter + 1 \in ManyGroupIds
          /\ create_group(c, p[1], p[2], p[3], p[4], p[5])
    \/ \E m \in Joiners, g \in ManyGroupIds : join_group(m, g)
    \/ \E m \in Joiners, g \in ManyGroupIds : contribute(m, g)
    \/ \E g \in ManyGroupIds : execute_payout(g)

SpecGroups == Init /\ [][NextGroups]_vars

\* the clock of the specification of isolation: a step past the first
\* cycle window, and a step past a voting deadline
IsolationSteps == {2, VOTING_PERIOD + 1}

PastDeadlineOk(t) ==
    \/ t <= MaxFine
    \/ t - now = VOTING_PERIOD + 1 /\ t <= MaxEpochs * (VOTING_PERIOD + 1) + MaxFine

\* several groups side by side with every function of the lifecycle and of
\* refund governance.  The creator is a member of every group; a second
\* member joins the first group only, votes are cast in favour (a request
\* without votes is the rejected one), and the clock moves by
\* IsolationSteps.
NextIsolation ==
    \/ \E d \in IsolationSteps : PastDeadlineOk(now + d) /\ advance_time(d)
    \/ \E a \in Admins : initialize(a)
    \/ \E c \in Creators, p \in GroupParams :
          /\ group_counter + 1 \in ManyGroupIds
          /\ create_group(c, p[1], p[2], p[3], p[4], p[5])
    \/ \E m \in Joiners, g \in GroupIds : join_group(m, g)
    \/ \E m \in Joiners, g \in ManyGroupIds : contribute(m, g)
    \/ \E g \in ManyGroupIds : execute_payout(g)
    \/ \E c \in Creators, g \in ManyGroupIds : cancel_group(c, g)
    \/ \E m \in Requesters, g \in ManyGroupIds : request_refund(m, g)
    \/ \E m \in Joiners, g \in ManyGroupIds : vote_refund(m, g, TRUE)
    \/ \E e \in Executors, g \in ManyGroupIds : execute_refund(e, g)
    \/ \E a \in Admins, g \in ManyGroupIds : emergency_refund(a, g)

SpecIsolation == Init /\ [][NextIsolation]_vars

\* the clock of the specification of stalled groups: seconds, and a step
\* past a voting deadline
StallSteps == {1, VOTING_PERIOD + 1}

\* what the members of one group can do without the admin: the group
\* lifecycle and refund governance, with no emergency_refund
NextStall ==
    \/ \E d \in StallSteps : PastDeadlineOk(now + d) /\ advance_time(d)
    \/ \E c \in Creators, p \in GroupParams :
          /\ group_counter + 1 \in GroupIds
          /\ create_group(c, p[1], p[2], p[3], p[4], p[5])
    \/ \E m \in Joiners, g \in GroupIds : join_group(m, g)
    \/ \E m \in Joiners, g \in GroupIds : contribute(m, g)
    \/ \E g \in GroupIds : execute_payout(g)
    \/ \E c \in Creators, g \in GroupIds : cancel_group(c, g)
    \/ \E m \in Joiners, g \in GroupIds : request_refund(m, g)
    \/ \E m \in Joiners, g \in GroupIds, f \in BOOLEAN : vote_refund(m, g, f)
    \/ \E e \in Executors, g \in GroupIds : execute_refund(e, g)

SpecStall == Init /\ [][NextStall]_vars

\* a group that is not complete has still to reach the end of its grace
\* period
rotation_needs_time ==
    \E g \in DOMAIN groups :
        ~groups[g].is_complete /\ now < get_grace_period_end(groups[g])

\* the clock of the specification of rotation: it runs to MaxFine, and
\* beyond it as long as the payout of a group waits for it
tick ==
    /\ now + 1 <= MaxFine \/ rotation_needs_time
    /\ advance_time(1)

\* the contribution cycle, never cancelled, under fair scheduling: a
\* contribution, a payout or a tick of the clock that stays possible is
\* eventually made
NextRotation ==
    \/ tick
    \/ \E c \in Creators, p \in TimingParams :
          /\ group_counter + 1 \in GroupIds
          /\ create_group(c, p[1], p[2], p[3], p[4], p[5])
    \/ \E m \in Joiners, g \in GroupIds : join_group(m, g)
    \/ \E m \in Joiners, g \in GroupIds : contribute(m, g)
    \/ \E g \in GroupIds : execute_payout(g)

FairRotation ==
    /\ WF_vars(tick)
    /\ \A m \in Joiners, g \in GroupIds : WF_vars(contribute(m, g))
    /\ \A g \in GroupIds : WF_vars(execute_payout(g))

SpecRotation == Init /\ [][NextRotation]_vars /\ FairRotation

(***************************************************************************)
(* Properties of the lifecycle.  A property about the value a call returns *)
(* in a state is an invariant over the call's <function>_result operator;  *)
(* a property about what a call does is a property of the steps.           *)
(***************************************************************************)

\* C1: in every reachable state and for every group, is_complete is true
\* exactly when payout_index equals the number of members, and exactly when
\* state is Complete.
C1_CompletionCoincides ==
    \A g \in DOMAIN groups :
        /\ groups[g].is_complete <=> (groups[g].payout_index = Len(groups[g].members))
        /\ groups[g].is_complete <=> (groups[g].state = "Complete")

\* a step that is a call of a mutating function returning an error
FailedCall ==
    \/ \E a \in Address : initialize(a) /\ initialize_result # "Ok"
    \/ \E c \in Address, p \in GroupParams :
          /\ create_group(c, p[1], p[2], p[3], p[4], p[5])
          /\ create_group_result(p[1], p[2], p[3], p[4], p[5]) # "Ok"
    \/ \E m \in Address, g \in GroupIds :
          \/ join_group(m, g) /\ join_group_result(m, g) # "Ok"
          \/ contribute(m, g) /\ contribute_result(m, g) # "Ok"
          \/ cancel_group(m, g) /\ cancel_group_result(m, g) # "Ok"
          \/ request_refund(m, g) /\ request_refund_result(m, g) # "Ok"
          \/ \E f \in BOOLEAN : vote_refund(m, g, f) /\ vote_refund_result(m, g) # "Ok"
          \/ execute_refund(m, g) /\ execute_refund_result(g) # "Ok"
          \/ emergency_refund(m, g) /\ emergency_refund_result(m, g) # "Ok"
    \/ \E g \in GroupIds : execute_payout(g) /\ execute_payout_result(g) # "Ok"

\* C2: a call of a mutating function that returns an error leaves every key
\* of the persistent store exactly as it was before the call.
C2_ErrorLeavesStoreUnchanged == [][FailedCall => UNCHANGED store]_vars

\* C3: execute_payout never succeeds while a member lacks a contribution
\* for current_cycle: called on an active group in that state (pause gate
\* open) it returns IncompleteContributions, and no step from such a state
\* changes payout_index or current_cycle.
C3_PayoutNeedsEveryContribution ==
    /\ [](\A g \in DOMAIN groups :
             ( /\ ~paused
               /\ groups[g].state # "Cancelled"
               /\ ~groups[g].is_complete
               /\ ~all_members_contributed(g, groups[g]) )
             => execute_payout_result(g) = "IncompleteContributions")
    /\ [][\A g \in DOMAIN groups :
             ~all_members_contributed(g, groups[g])
             => /\ groups'[g].payout_index = groups[g].payout_index
                /\ groups'[g].current_cycle = groups[g].current_cycle]_vars

\* a payout has been made, and in the cycle after it one member has
\* contributed while another has not
C3_Witness ==
    \E g \in DOMAIN groups :
        /\ groups[g].payout_index > 0
        /\ \E m \in Range(groups[g].members) :
               has_contributed(g, groups[g].current_cycle, m)
        /\ execute_payout_result(g) = "IncompleteContributions"

C5_CancelledIsTerminal ==
    /\ [][\A g \in DOMAIN groups :
             groups[g].state = "Cancelled" => groups'[g].state = "Cancelled"]_vars
    /\ [](\A g \in DOMAIN groups :
             (groups[g].state = "Cancelled" /\ ~paused)
             => /\ \A m \in Address : contribute_result(m, g) = "GroupCancelled"
                /\ execute_payout_result(g) = "GroupCancelled"
                /\ cancel_group_result(groups[g].creator, g) = "GroupCancelled"
                /\ \A m \in Range(groups[g].members) :
                       request_refund_result(m, g) = "GroupCancelled")

\* a group cancelled at an earlier time, with a refund on record
C5_Witness ==
    \E g \in DOMAIN groups :
        /\ groups[g].state = "Cancelled"
        /\ \E m \in Range(groups[g].members) :
               /\ <<g, m>> \in DOMAIN refund_records
               /\ refund_records[<<g, m>>].timestamp < now

\* C6: Complete is terminal: a group whose state is Complete keeps that
\* state in every step, whichever function is called.
C6_CompleteIsTerminal ==
    [][\A g \in DOMAIN groups :
          groups[g].state = "Complete" => groups'[g].state = "Complete"]_vars

\* C7: payout_index never exceeds the number of members and never decreases.
C7_PayoutIndexBounded ==
    /\ [](\A g \in DOMAIN groups :
             groups[g].payout_index <= Len(groups[g].members))
    /\ [][\A g \in DOMAIN groups :
             groups'[g].payout_index >= groups[g].payout_index]_vars

\* a group of two members after both payouts
C7_Witness ==
    \E g \in DOMAIN groups :
        /\ Len(groups[g].members) = 2
        /\ groups[g].payout_index = 2

\* C8: once is_complete is true it stays true, contribute and
\* execute_payout on the group are refused (GroupComplete, or GroupCancelled
\* after a refund; pause gate open), and no step adds a contribution record
\* or a payout of the group.
C8_CompleteAcceptsNothing ==
    /\ [](\A g \in DOMAIN groups :
             (groups[g].is_complete /\ ~paused)
             => /\ \A m \in Address :
                       contribute_result(m, g) \in {"GroupComplete", "GroupCancelled"}
                /\ execute_payout_result(g) \in {"GroupComplete", "GroupCancelled"})
    /\ [][\A g \in DOMAIN groups :
             groups[g].is_complete
             => /\ groups'[g].is_complete
                /\ groups'[g].payout_index = groups[g].payout_index
                /\ \A k \in DOMAIN contributions' :
                       k[1] = g => k \in DOMAIN contributions
                /\ \A k \in DOMAIN contribution_details' :
                       k[1] = g => k \in DOMAIN contribution_details
                /\ \A k \in DOMAIN payout_received' :
                       k[1] = g => k \in DOMAIN payout_received]_vars

\* a completed group of two members, on which a member's contribute and
\* execute_payout are refused with GroupComplete
C8_Witness ==
    \E g \in DOMAIN groups :
        /\ groups[g].is_complete
        /\ Len(groups[g].members) = 2
        /\ \E m \in Range(groups[g].members) : contribute_result(m, g) = "GroupComplete"
        /\ execute_payout_result(g) = "GroupComplete"

\* C9: while the contract is paused no step changes any data of the store
\* (every mutating function, emergency_refund and set_group_metadata
\* included, is rejected); only the pause flag itself may change.
C9_PausedChangesNothing ==
    [][paused => UNCHANGED <<admin, group_counter, groups, contributions,
                             contribution_details, payout_received,
                             member_penalties, penalty_pools, group_metadata,
                             refund_requests, refund_votes, refund_records>>]_vars

\* the RefundReason written by each of the three refund paths
reason_of(op) ==
    CASE op = "cancel_group" -> "CreatorCancellation"
      [] op = "execute_refund" -> "MemberVote"
      [] op = "emergency_refund" -> "EmergencyRefund"

\* C10: after cancel_group, execute_refund or emergency_refund has returned
\* Ok for a group, the group's state is Cancelled and a RefundRecord of the
\* group exists for exactly the members with a contribution for
\* current_cycle, each with amount = contribution_amount and the reason of
\* the path taken.
C10_RefundsForCurrentContributors ==
    (last.op \in {"cancel_group", "execute_refund", "emergency_refund"} /\ last.res = "Ok")
    => LET g == last.gid
           group == groups[g]
       IN  /\ group.state = "Cancelled"
           /\ \A m \in Address :
                  (<<g, m>> \in DOMAIN refund_records)
                  <=> has_contributed(g, group.current_cycle, m)
           /\ \A m \in current_contributors(g, group) :
                  /\ refund_records[<<g, m>>].amount = group.contribution_amount
                  /\ refund_records[<<g, m>>].reason = reason_of(last.op)
                  /\ refund_records[<<g, m>>].timestamp <= now

\* an approved execute_refund on a group where one member had contributed
\* to the current cycle and another had not
C10_Witness ==
    /\ last.op = "execute_refund"
    /\ last.res = "Ok"
    /\ \E m1, m2 \in Range(groups[last.gid].members) :
           /\ has_contributed(last.gid, groups[last.gid].current_cycle, m1)
           /\ ~has_contributed(last.gid, groups[last.gid].current_cycle, m2)

\* C11: cancel_group never succeeds once a payout has been executed: on an
\* Active group with payout_index > 0 (pause gate open) the creator's call
\* returns CannotCancelAfterPayout and any other address's call returns
\* OnlyCreatorCanCancel, and no cancel_group step from a state with
\* payout_index > 0 changes the group or writes a refund record.
C11_NoCancelAfterPayout ==
    /\ [](\A g \in DOMAIN groups :
             (~paused /\ groups[g].state = "Active" /\ groups[g].payout_index > 0)
             => \A c \in Address :
                    cancel_group_result(c, g) =
                        IF c = groups[g].creator THEN "CannotCancelAfterPayout"
                        ELSE "OnlyCreatorCanCancel")
    /\ [][\A g \in DOMAIN groups, c \in Address :
             (groups[g].payout_index > 0 /\ cancel_group(c, g))
             => UNCHANGED <<groups, refund_records>>]_vars

\* an Active group of two members after its first payout, with both
\* members' contributions for the next cycle in
C11_Witness ==
    \E g \in DOMAIN groups :
        /\ groups[g].state = "Active"
        /\ groups[g].payout_index = 1
        /\ all_members_contributed(g, groups[g])
        /\ cancel_group_result(groups[g].creator, g) = "CannotCancelAfterPayout"

\* the approval of a request computed from its tallies: votes_for * 100 div
\* the votes cast, 0 when none was cast
tally_percentage(request) ==
    IF request.votes_for + request.votes_against = 0 THEN 0
    ELSE (request.votes_for * 100) \div (request.votes_for + request.votes_against)

C13_NoDecisionBeforeDeadline ==
    /\ [](\A g \in DOMAIN refund_requests :
             ( /\ ~paused
               /\ ~refund_requests[g].executed
               /\ now <= refund_requests[g].voting_deadline )
             => execute_refund_result(g) = "VotingPeriodActive")
    /\ [](\A k \in DOMAIN refund_records :
             refund_records[k].reason = "MemberVote"
             => /\ k[1] \in DOMAIN refund_requests
                /\ refund_records[k].timestamp >
                       refund_requests[k[1]].created_at + VOTING_PERIOD)
    /\ [][\A g \in DOMAIN refund_requests :
             now <= refund_requests[g].created_at + VOTING_PERIOD
             => /\ refund_requests'[g].executed = refund_requests[g].executed
                /\ groups'[g].state = "Cancelled"
                   => \/ groups[g].state = "Cancelled"
                      \/ last'.op # "execute_refund"]_vars

\* the clock stands exactly at the voting deadline of a request that has a
\* vote in favour and none against
C13_Witness ==
    \E g \in DOMAIN refund_requests :
        /\ now = refund_requests[g].voting_deadline
        /\ now = refund_requests[g].created_at + VOTING_PERIOD
        /\ refund_requests[g].votes_for >= 1
        /\ refund_requests[g].votes_against = 0
        /\ execute_refund_result(g) = "VotingPeriodActive"

\* C14: a refund request is executed at most once: once its executed flag
\* is set, execute_refund on the group (pause gate open) returns
\* RefundAlreadyExecuted, no step changes the request, and no execute_refund
\* step changes the group or any refund record.
C14_RefundExecutedOnce ==
    /\ [](\A g \in DOMAIN refund_requests :
             (~paused /\ refund_requests[g].executed)
             => execute_refund_result(g) = "RefundAlreadyExecuted")
    /\ [][\A g \in DOMAIN refund_requests :
             refund_requests[g].executed
             => /\ refund_requests'[g] = refund_requests[g]
                /\ \A e \in Address :
                       execute_refund(e, g)
                       => UNCHANGED <<groups, refund_records>>]_vars

\* a rejected request on a group that is still Active, some time after
\* its execution
C14_Witness ==
    \E g \in DOMAIN refund_requests :
        /\ refund_requests[g].executed
        /\ ~refund_requests[g].approved
        /\ groups[g].state = "Active"
        /\ last.op # "execute_refund"
        /\ execute_refund_result(g) = "RefundAlreadyExecuted"

\* the identity of a stored request never changes
RequestIdentityKept ==
    [][\A g \in DOMAIN refund_requests :
          /\ g \in DOMAIN refund_requests'
          /\ refund_requests'[g].requester = refund_requests[g].requester
          /\ refund_requests'[g].created_at = refund_requests[g].created_at
          /\ refund_requests'[g].voting_deadline =
                 refund_requests[g].voting_deadline]_vars

\* C15 as stated: once a group has a refund request, request_refund on it
\* never returns Ok, a member's request_refund on the group while it is
\* Active (pause gate open) returns RefundRequestExists, and the stored
\* request's requester, created_at and voting_deadline never change.
C15_RequestExistsWhileActive ==
    /\ [](\A g \in DOMAIN refund_requests :
             ~paused
             => /\ \A m \in Address : request_refund_result(m, g) # "Ok"
                /\ groups[g].state = "Active"
                   => \A m \in Range(groups[g].members) :
                          request_refund_result(m, g) = "RefundRequestExists")
    /\ RequestIdentityKept

\* C15 amended: once a group has a refund request, request_refund on it
\* never returns Ok (also after the request was executed and rejected); a
\* member's call on the Active group returns RefundRequestExists when
\* now > cycle_start_time + cycle_duration + grace_period and
\* CycleNotExpired before that; and the stored request's requester,
\* created_at and voting_deadline never change.
C15_OneRequestPerGroup ==
    /\ [](\A g \in DOMAIN refund_requests :
             ~paused
             => /\ \A m \in Address : request_refund_result(m, g) # "Ok"
                /\ groups[g].state = "Active"
                   => \A m \in Range(groups[g].members) :
                          request_refund_result(m, g) =
                              IF now > groups[g].cycle_start_time
                                       + groups[g].cycle_duration
                                       + groups[g].grace_period
                              THEN "RefundRequestExists"
                              ELSE "CycleNotExpired")
    /\ RequestIdentityKept

\* a request executed and rejected on a group that is still Active and
\* whose cycle has timed out: a member's new request is refused
C15_Witness ==
    \E g \in DOMAIN refund_requests :
        /\ refund_requests[g].executed
        /\ ~refund_requests[g].approved
        /\ groups[g].state = "Active"
        /\ \E m \in Range(groups[g].members) :
               request_refund_result(m, g) = "RefundRequestExists"

\* the members whose stored vote on the request of group g is in_favor = f
voters(g, f) ==
    { m \in Address : has_voted(g, m) /\ refund_votes[<<g, m>>].in_favor = f }

\* C16: each member casts at most one vote per group: once a member's vote
\* is stored, that member's vote_refund (pause gate open) returns
\* AlreadyVoted, the stored vote never changes and the tallies count each
\* stored vote once; and at a time > voting_deadline no vote_refund
\* succeeds (VotingPeriodEnded for a member who has not voted) and no step
\* changes votes_for or votes_against.
C16_OneVotePerMember ==
    /\ [](\A g \in DOMAIN refund_requests :
             /\ refund_requests[g].votes_for = Cardinality(voters(g, TRUE))
             /\ refund_requests[g].votes_against = Cardinality(voters(g, FALSE))
             /\ ~paused
                => \A m \in Address :
                       /\ has_voted(g, m)
                          => vote_refund_result(m, g) = "AlreadyVoted"
                       /\ now > refund_requests[g].voting_deadline
                          => /\ vote_refund_result(m, g) # "Ok"
                             /\ (is_member(groups[g].members, m) /\ ~has_voted(g, m))
                                => vote_refund_result(m, g) = "VotingPeriodEnded")
    /\ [][\A k \in DOMAIN refund_votes :
             /\ k \in DOMAIN refund_votes'
             /\ refund_votes'[k] = refund_votes[k]]_vars
    /\ [][\A g \in DOMAIN refund_requests :
             now > refund_requests[g].voting_deadline
             => /\ refund_requests'[g].votes_for = refund_requests[g].votes_for
                /\ refund_requests'[g].votes_against =
                       refund_requests[g].votes_against]_vars

\* the voting deadline has passed; one member has voted and another
\* has not
C16_Witness ==
    \E g \in DOMAIN refund_requests :
        /\ now > refund_requests[g].voting_deadline
        /\ \E m1, m2 \in Range(groups[g].members) :
               /\ has_voted(g, m1)
               /\ vote_refund_result(m1, g) = "AlreadyVoted"
               /\ ~has_voted(g, m2)
               /\ vote_refund_result(m2, g) = "VotingPeriodEnded"

\* cycle_start_time + cycle_duration + grace_period of a group
refund_bound(group) ==
    group.cycle_start_time + group.cycle_duration + group.grace_period

\* C17: request_refund returns Ok only when the requester is a member, the
\* group is Active, no request exists and now > cycle_start_time +
\* cycle_duration + grace_period; a member's call on an Active group at any
\* time <= that bound (pause gate open) returns CycleNotExpired; and a
\* request appears only in such a step, with votes_for = votes_against = 0,
\* executed = approved = false, created_at = now and voting_deadline =
\* now + VOTING_PERIOD.
C17_RequestAfterExpiryOnly ==
    /\ [](\A g \in DOMAIN groups, m \in Address :
             /\ request_refund_result(m, g) = "Ok"
                => /\ m \in Range(groups[g].members)
                   /\ groups[g].state = "Active"
                   /\ g \notin DOMAIN refund_requests
                   /\ now > refund_bound(groups[g])
             /\ ( /\ ~paused
                  /\ m \in Range(groups[g].members)
                  /\ groups[g].state = "Active"
                  /\ now <= refund_bound(groups[g]) )
                => request_refund_result(m, g) = "CycleNotExpired")
    /\ [][\A g \in DOMAIN groups :
             (g \notin DOMAIN refund_requests /\ g \in DOMAIN refund_requests')
             => /\ now > refund_bound(groups[g])
                /\ groups[g].state = "Active"
                /\ last'.op = "request_refund"
                /\ last'.who \in Range(groups[g].members)
                /\ refund_requests'[g] =
                       [requester |-> last'.who,
                        created_at |-> now,
                        voting_deadline |-> now + 604800,
                        votes_for |-> 0, votes_against |-> 0,
                        executed |-> FALSE, approved |-> FALSE]]_vars

\* the clock stands exactly at the end of the grace period of the second
\* cycle of an Active group that has no request
C17_Witness ==
    \E g \in DOMAIN groups :
        /\ groups[g].state = "Active"
        /\ groups[g].current_cycle = 2
        /\ g \notin DOMAIN refund_requests
        /\ now = refund_bound(groups[g])
        /\ \E m \in Range(groups[g].members) :
               request_refund_result(m, g) = "CycleNotExpired"

\* C18: emergency_refund returns Ok only for the stored admin: a call by
\* any other address, or any call before initialize, returns Unauthorized
\* and no emergency_refund step by such a caller changes the store;
\* initialize succeeds at most once (AlreadyInitialized afterwards) and the
\* stored admin never changes once set.
C18_AdminOnlyEmergencyRefund ==
    /\ [](\A g \in GroupIds, a \in Address :
             (admin = NoAddress \/ a # admin)
             => emergency_refund_result(a, g) = "Unauthorized")
    /\ [](admin # NoAddress => initialize_result = "AlreadyInitialized")
    /\ [][admin # NoAddress => admin' = admin]_vars
    /\ [][\A g \in GroupIds, a \in Address :
             ((admin = NoAddress \/ a # admin) /\ emergency_refund(a, g))
             => UNCHANGED store]_vars

\* after initialize, an Active group holding a contribution: the admin's
\* emergency_refund would succeed and the creator's is refused
C18_Witness ==
    \E g \in DOMAIN groups :
        /\ admin # NoAddress
        /\ groups[g].state = "Active"
        /\ current_contributors(g, groups[g]) # {}
        /\ groups[g].creator # admin
        /\ emergency_refund_result(groups[g].creator, g) = "Unauthorized"
        /\ emergency_refund_result(admin, g) = "Ok"

\* C19: a member contributes at most once per (group, cycle): with a
\* contribution stored for the current cycle the member's contribute never
\* returns Ok, and returns AlreadyContributed while the group is Active
\* (pause gate open); and no step modifies or removes a stored
\* ContributionRecord or contribution flag.
C19_OneContributionPerCycle ==
    /\ [](\A g \in DOMAIN groups, m \in Address :
             has_contributed(g, groups[g].current_cycle, m)
             => /\ contribute_result(m, g) # "Ok"
                /\ (~paused /\ groups[g].state = "Active")
                   => contribute_result(m, g) = "AlreadyContributed")
    /\ [][/\ \A k \in DOMAIN contribution_details :
                /\ k \in DOMAIN contribution_details'
                /\ contribution_details'[k] = contribution_details[k]
          /\ \A k \in DOMAIN contributions :
                /\ k \in DOMAIN contributions'
                /\ contributions'[k] = contributions[k]]_vars

\* in the second cycle of an Active group a member's contribution is on
\* record from an earlier time, and a record of the first cycle is kept
C19_Witness ==
    \E g \in DOMAIN groups, m \in Address :
        /\ groups[g].state = "Active"
        /\ groups[g].current_cycle = 2
        /\ <<g, 1, m>> \in DOMAIN contribution_details
        /\ <<g, 2, m>> \in DOMAIN contribution_details
        /\ contribution_details[<<g, 2, m>>].timestamp < now
        /\ contribute_result(m, g) = "AlreadyContributed"

cycle_records(g, c) ==
    { k \in DOMAIN contribution_details : k[1] = g /\ k[2] = c }

RECURSIVE sum_penalties(_)
\* the sum of penalty_amount over a set of contribution records
sum_penalties(keys) ==
    IF keys = {} THEN 0
    ELSE LET k == CHOOSE x \in keys : TRUE
         IN  contribution_details[k].penalty_amount + sum_penalties(keys \ {k})

\* C21: in every reachable state the penalty pool of each (group, cycle)
\* equals the sum of penalty_amount over the contribution records of that
\* group and cycle (0 when there is none), and a step changes the pool of a
\* group's current cycle only.
C21_PoolIsSumOfPenalties ==
    /\ [](\A g \in DOMAIN groups :
             \A c \in 1..groups[g].current_cycle :
                get_cycle_penalty_pool(g, c) = sum_penalties(cycle_records(g, c)))
    /\ [](\A k \in DOMAIN penalty_pools :
             /\ k[1] \in DOMAIN groups
             /\ k[2] \in 1..groups[k[1]].current_cycle)
    /\ [][\A k \in DOMAIN penalty_pools' :
             (k \notin DOMAIN penalty_pools \/ penalty_pools'[k] # penalty_pools[k])
             => k[2] = groups[k[1]].current_cycle]_vars

\* two late contributions of penalty 1 each in one cycle: the pool holds 2
C21_Witness ==
    \E g \in DOMAIN groups :
        /\ Cardinality(cycle_records(g, groups[g].current_cycle)) = 2
        /\ \A k \in cycle_records(g, groups[g].current_cycle) :
               contribution_details[k].penalty_amount = 1
        /\ get_cycle_penalty_pool(g, groups[g].current_cycle) = 2

\* C22: on every successful execute_payout the amount paid equals
\* contribution_amount * members.length + the penalty pool of the current
\* cycle, which equals the sum over the contribution records of that cycle
\* of contribution_amount plus penalty_amount.
C22_PayoutAmount ==
    [][\A g \in DOMAIN groups :
          groups'[g].payout_index # groups[g].payout_index
          => LET group == groups[g]
                 records == cycle_records(g, group.current_cycle)
             IN  /\ last'.op = "execute_payout"
                 /\ last'.amt = group.contribution_amount * Len(group.members)
                                + (IF <<g, group.current_cycle>> \in DOMAIN penalty_pools
                                   THEN penalty_pools[<<g, group.current_cycle>>]
                                   ELSE 0)
                 /\ last'.amt = group.contribution_amount * Cardinality(records)
                                + sum_penalties(records)]_vars

\* a payout of a two-member group that carried a penalty on top of the
\* two contributions
C22_Witness ==
    \E g \in DOMAIN groups :
        /\ last.op = "execute_payout"
        /\ last.gid = g
        /\ Len(groups[g].members) = 2
        /\ last.amt > groups[g].contribution_amount * 2

\* C23: payouts rotate in join order and each member is paid at most once:
\* the member list only grows by appending the joiner, the members paid
\* are exactly the first payout_index members, each successful
\* execute_payout pays members[payout_index] and advances payout_index by
\* exactly 1, and when it is not the final payout it increments
\* current_cycle by 1 and sets cycle_start_time to the current time.
C23_RotationInJoinOrder ==
    /\ [](\A g \in DOMAIN groups :
             /\ groups[g].members[1] = groups[g].creator
             /\ { m \in Address : has_received_payout(g, m) } =
                    { groups[g].members[i] : i \in 1..groups[g].payout_index }
             /\ Cardinality({ m \in Address : has_received_payout(g, m) }) =
                    groups[g].payout_index)
    /\ [][\A g \in DOMAIN groups :
             /\ \/ groups'[g].members = groups[g].members
                \/ /\ last'.op = "join_group"
                   /\ groups'[g].members = Append(groups[g].members, last'.who)
             /\ groups'[g].payout_index # groups[g].payout_index
                => /\ groups'[g].payout_index = groups[g].payout_index + 1
                   /\ last'.op = "execute_payout"
                   /\ last'.who = groups[g].members[groups[g].payout_index + 1]
                   /\ ~has_received_payout(g, last'.who)
                   /\ IF groups[g].payout_index + 1 < Len(groups[g].members)
                      THEN /\ groups'[g].current_cycle = groups[g].current_cycle + 1
                           /\ groups'[g].cycle_start_time = now
                           /\ ~groups'[g].is_complete
                      ELSE /\ groups'[g].current_cycle = groups[g].current_cycle
                           /\ groups'[g].cycle_start_time = groups[g].cycle_start_time
                           /\ groups'[g].is_complete]_vars

\* after the first payout of a two-member group: the creator is paid, the
\* joiner is not, and the second cycle started at the time of the payout
C23_Witness ==
    \E g \in DOMAIN groups :
        /\ Len(groups[g].members) = 2
        /\ groups[g].payout_index = 1
        /\ groups[g].current_cycle = 2
        /\ groups[g].cycle_start_time > groups[g].created_at
        /\ has_received_payout(g, groups[g].creator)
        /\ ~has_received_payout(g, groups[g].members[2])

\* C24: create_group assigns the ids 1, 2, 3, ... without gaps: the groups
\* stored are exactly those numbered 1..group_counter, each under its own
\* id; the counter changes only by a successful create_group, by exactly 1,
\* and the group created has the new counter as id, members = [creator],
\* current_cycle = 1, payout_index = 0, is_complete = false, state = Active
\* and cycle_start_time = created_at = now; a create_group whose arguments
\* fail validation is not among the calls that change the counter.
C24_SequentialGroupIds ==
    /\ [](/\ DOMAIN groups = 1..group_counter
          /\ \A g \in DOMAIN groups :
                /\ groups[g].id = g
                /\ groups[g].members[1] = groups[g].creator
                /\ groups[g].created_at <= groups[g].cycle_start_time)
    /\ [][/\ DOMAIN groups \subseteq DOMAIN groups'
          /\ \A g \in DOMAIN groups : groups'[g].id = groups[g].id
          /\ (group_counter' # group_counter \/ DOMAIN groups' # DOMAIN groups)
             => /\ group_counter' = group_counter + 1
                /\ DOMAIN groups' = DOMAIN groups \cup {group_counter'}
                /\ last'.op = "create_group"
                /\ last'.res = "Ok"
                /\ last'.gid = group_counter'
                /\ LET group == groups'[group_counter'] IN
                   /\ group.id = group_counter'
                   /\ group.members = <<last'.who>>
                   /\ group.creator = last'.who
                   /\ group.current_cycle = 1
                   /\ group.payout_index = 0
                   /\ group.is_complete = FALSE
                   /\ group.state = "Active"
                   /\ group.cycle_start_time = now
                   /\ group.created_at = now
                   /\ validate_group_params(group.contribution_amount,
                          group.cycle_duration, group.max_members) = "Ok"]_vars

\* a second group, created later than the first and by another address,
\* while the first group has moved on
C24_Witness ==
    /\ group_counter = 2
    /\ groups[1].creator # groups[2].creator
    /\ groups[2].created_at > groups[1].created_at
    /\ Len(groups[1].members) = 2
    /\ last.op = "create_group"
    /\ last.gid = 2

C27_CancelledRejectsJoin ==
    /\ [](\A g \in DOMAIN groups :
             groups[g].state = "Cancelled"
             => \A m \in Address : join_group_result(m, g) # "Ok")
    /\ [][\A g \in DOMAIN groups :
             groups[g].state = "Cancelled"
             => groups'[g].members = groups[g].members]_vars

\* the members of group g that have a contribution record in cycle c
recorded_contributors(g, c) ==
    { m \in Range(groups[g].members) : <<g, c, m>> \in DOMAIN contribution_details }

\* the place of a member in the member list of group g
member_position(g, m) ==
    CHOOSE i \in 1..Len(groups[g].members) : groups[g].members[i] = m

\* C28: for a group with M members of which N have contributed in cycle c,
\* get_contribution_status(group, c) returns M entries, one per member in
\* member order, with exactly N true flags; get_group_status reports
\* contributions_received = N for the current cycle and
\* pending_contributors = the M - N members without a record, in member
\* order, so that contributions_received + pending_contributors.length =
\* total_members = M.
C28_StatusQueriesCount ==
    \A g \in DOMAIN groups :
        LET members == groups[g].members
            status == get_group_status(g)
            pending == status.pending_contributors
            contributed == recorded_contributors(g, groups[g].current_cycle)
        IN
        /\ \A c \in 1..(groups[g].current_cycle + 1) :
              LET entries == get_contribution_status(g, c) IN
              /\ get_contribution_status_result(g, c) = "Ok"
              /\ Len(entries) = Len(members)
              /\ \A i \in 1..Len(members) :
                    /\ entries[i][1] = members[i]
                    /\ entries[i][2] <=> members[i] \in recorded_contributors(g, c)
              /\ Cardinality({ i \in 1..Len(entries) : entries[i][2] }) =
                     Cardinality(recorded_contributors(g, c))
        /\ get_group_status_result(g) = "Ok"
        /\ status.total_members = Len(members)
        /\ status.contributions_received = Cardinality(contributed)
        /\ Range(pending) = Range(members) \ contributed
        /\ Len(pending) = Len(members) - Cardinality(contributed)
        /\ \A i, j \in 1..Len(pending) :
              i < j => member_position(g, pending[i]) < member_position(g, pending[j])
        /\ status.contributions_received + Len(pending) = status.total_members

\* the second cycle of a two-member group in which only the second member
\* has contributed: one contribution received, the creator pending
C28_Witness ==
    \E g \in DOMAIN groups :
        /\ groups[g].current_cycle = 2
        /\ Len(groups[g].members) = 2
        /\ get_group_status(g).contributions_received = 1
        /\ get_group_status(g).pending_contributors = <<groups[g].creator>>
        /\ get_contribution_status(g, 2)[2][2]
        /\ \A i \in 1..2 : get_contribution_status(g, 1)[i][2]

\* C29: contribute writes a contribution record (and its flag) only for
\* the group's current cycle; the step of a non-final execute_payout leaves
\* every member pending for the new cycle and changes no record of an
\* earlier cycle; a member counts as having contributed in the current
\* cycle exactly when it has a record for that cycle.
C29_RecordsPerCycle ==
    /\ [](\A g \in DOMAIN groups : \A m \in Range(groups[g].members) :
             has_contributed(g, groups[g].current_cycle, m)
             <=> <<g, groups[g].current_cycle, m>> \in DOMAIN contribution_details)
    /\ [][/\ \A k \in (DOMAIN contribution_details') \ DOMAIN contribution_details :
                /\ last'.op = "contribute"
                /\ k = <<last'.gid, groups[last'.gid].current_cycle, last'.who>>
          /\ \A k \in (DOMAIN contributions') \ DOMAIN contributions :
                k[2] = groups[k[1]].current_cycle
          /\ \A g \in DOMAIN groups :
                groups'[g].current_cycle # groups[g].current_cycle
                => /\ last'.op = "execute_payout"
                   /\ groups'[g].current_cycle = groups[g].current_cycle + 1
                   /\ cycle_records(g, groups[g].current_cycle + 1) = {}
                   /\ get_group_status(g)'.contributions_received = 0
                   /\ get_group_status(g)'.pending_contributors = groups'[g].members
                   /\ contribution_details' = contribution_details
                   /\ contributions' = contributions]_vars

\* right after the first payout of a two-member group: both records of
\* cycle 1 are kept and both members are pending for cycle 2
C29_Witness ==
    \E g \in DOMAIN groups :
        /\ last.op = "execute_payout"
        /\ last.gid = g
        /\ groups[g].current_cycle = 2
        /\ Cardinality(cycle_records(g, 1)) = 2
        /\ get_group_status(g).pending_contributors = groups[g].members

\* the keys of the contribution records of member m in group g
member_records(g, m) ==
    { k \in DOMAIN contribution_details : k[1] = g /\ k[3] = m }

\* C30: in every reachable state, for every group and member, late_count
\* equals the number of the member's contribution records in the group
\* with is_late = true, on_time_count the number with is_late = false, and
\* total_penalties the sum of their penalty_amount (late contributions
\* with a penalty of 0 included).
C30_PenaltyRecordCounts ==
    \A g \in DOMAIN groups : \A m \in Range(groups[g].members) :
        LET record == get_member_penalty_record(g, m)
            records == member_records(g, m)
        IN
        /\ get_member_penalty_record_result(g, m) = "Ok"
        /\ record.late_count =
               Cardinality({ k \in records : contribution_details[k].is_late })
        /\ record.on_time_count =
               Cardinality({ k \in records : ~contribution_details[k].is_late })
        /\ record.total_penalties = sum_penalties(records)

\* the part of a keyed store that belongs to group g
of_group(f, g) == [k \in { x \in DOMAIN f : x[1] = g } |-> f[k]]

\* what is stored for group g: the group record, its contribution flags
\* and records, penalty pools, refund request, votes and refund records
group_data(g) ==
    <<IF has_group(g) THEN <<groups[g]>> ELSE <<>>,
      of_group(contributions, g),
      of_group(contribution_details, g),
      of_group(penalty_pools, g),
      IF has_refund_request(g) THEN <<refund_requests[g]>> ELSE <<>>,
      of_group(refund_votes, g),
      of_group(refund_records, g)>>

\* a call addressed to group a, by any caller
addressed_to(a) ==
    \/ \E m \in Address : join_group(m, a)
    \/ \E m \in Address : contribute(m, a)
    \/ execute_payout(a)
    \/ \E c \in Address : cancel_group(c, a)
    \/ \E m \in Address : request_refund(m, a)
    \/ \E m \in Address, f \in BOOLEAN : vote_refund(m, a, f)
    \/ \E e \in Address : execute_refund(e, a)
    \/ \E c \in Address : emergency_refund(c, a)

C32_RefundsProducedOnce ==
    /\ [](\A g \in DOMAIN refund_requests :
             (groups[g].state = "Cancelled" /\ ~refund_requests[g].executed)
             => execute_refund_result(g) # "Ok")
    /\ [][\A g \in DOMAIN groups :
             groups[g].state = "Cancelled"
             => of_group(refund_records, g)' = of_group(refund_records, g)]_vars

\* the votes stored for group g with the given choice
stored_votes(g, f) ==
    { k \in DOMAIN refund_votes : k[1] = g /\ refund_votes[k].in_favor = f }

\* C36: in every reachable state, for every group with a refund request,
\* votes_for equals the number of stored votes of the group with in_favor
\* = true, votes_against the number with in_favor = false, every stored
\* vote belongs to an address of the member list, and so votes_for +
\* votes_against <= members.length.
C36_TalliesMatchStoredVotes ==
    /\ \A g \in DOMAIN refund_requests :
          /\ refund_requests[g].votes_for = Cardinality(stored_votes(g, TRUE))
          /\ refund_requests[g].votes_against = Cardinality(stored_votes(g, FALSE))
          /\ refund_requests[g].votes_for + refund_requests[g].votes_against
                 <= Len(groups[g].members)
    /\ \A k \in DOMAIN refund_votes :
          /\ k[1] \in DOMAIN refund_requests
          /\ k[2] \in Range(groups[k[1]].members)

\* a request that every member of a two-member group has voted on, one in
\* favour and one against
C36_Witness ==
    \E g \in DOMAIN refund_requests :
        /\ Len(groups[g].members) = 2
        /\ refund_requests[g].votes_for = 1
        /\ refund_requests[g].votes_against = 1
        /\ \A m \in Range(groups[g].members) : <<g, m>> \in DOMAIN refund_votes

\* C37: the clock never goes back, and no vote is recorded after a refund
\* request has been executed: a request is executed only past its voting
\* deadline, from then on no vote_refund succeeds, and no step changes
\* votes_for, votes_against or the votes stored for the group.
C37_NoVoteAfterExecution ==
    /\ [][now' >= now]_vars
    /\ [](\A g \in DOMAIN refund_requests :
             refund_requests[g].executed
             => /\ now > refund_requests[g].voting_deadline
                /\ \A m \in Address : vote_refund_result(m, g) # "Ok")
    /\ [][\A g \in DOMAIN refund_requests :
             refund_requests[g].executed
             => /\ refund_requests'[g].votes_for = refund_requests[g].votes_for
                /\ refund_requests'[g].votes_against = refund_requests[g].votes_against
                /\ of_group(refund_votes, g)' = of_group(refund_votes, g)]_vars

\* an executed request on which a member never voted: only the deadline
\* keeps that member's vote out
C37_Witness ==
    \E g \in DOMAIN refund_requests :
        /\ refund_requests[g].executed
        /\ refund_requests[g].votes_for = 1
        /\ \E m \in Range(groups[g].members) :
              /\ ~has_voted(g, m)
              /\ vote_refund_result(m, g) = "VotingPeriodEnded"

ready_for_payout(g) ==
    /\ groups[g].state = "Active"
    /\ ~groups[g].is_complete
    /\ \A m \in Range(groups[g].members) :
          has_contributed(g, groups[g].current_cycle, m)

\* C34: readiness for payout is stable: once every member of an Active
\* group has contributed to the current cycle, execute_payout succeeds at
\* every later time >= cycle_start_time + cycle_duration + grace_period
\* unless the group was cancelled in between: the group stays ready until
\* it is paid out or cancelled, whatever address joins.
C34_ReadinessStable ==
    /\ [](\A g \in DOMAIN groups :
             (~paused /\ ready_for_payout(g)
              /\ now >= refund_bound(groups[g]))
             => execute_payout_result(g) = "Ok")
    /\ [][\A g \in DOMAIN groups :
             ready_for_payout(g)
             => \/ ready_for_payout(g)'
                \/ groups'[g].state = "Cancelled"
                \/ groups'[g].payout_index = groups[g].payout_index + 1]_vars

\* the Active group g is stalled: its contribution window and grace period
\* are over and a member has not contributed to the current cycle
stalled(g) ==
    /\ groups[g].state = "Active"
    /\ now > refund_bound(groups[g])
    /\ \E m \in Range(groups[g].members) :
          ~has_contributed(g, groups[g].current_cycle, m)

\* C33: a stalled group can always be dissolved by its members without the
\* admin: in every reachable state in which a group is stalled, the
\* creator's cancel_group succeeds, or a member's request_refund succeeds,
\* or a refund request is there that has not been executed; a group whose
\* request was executed and rejected is not left without all three.
C33_StalledGroupDissolvable ==
    \A g \in DOMAIN groups :
        stalled(g)
        => \/ cancel_group_result(groups[g].creator, g) = "Ok"
           \/ \E m \in Range(groups[g].members) : request_refund_result(m, g) = "Ok"
           \/ has_refund_request(g) /\ ~refund_requests[g].executed

\* a member of group g has let the grace period of the current cycle pass
\* without contributing
missed_contribution(g) ==
    /\ now > get_grace_period_end(groups[g])
    /\ \E m \in Range(groups[g].members) :
          ~has_contributed(g, groups[g].current_cycle, m)

\* C38: rotation terminates: under fair scheduling of contribute, the
\* clock and execute_payout, a group that is never cancelled and in which
\* no member lets a grace period pass without contributing eventually
\* becomes complete; a complete group has state Complete, has made exactly
\* members.length payouts, and every member, and nobody else, is marked as
\* having received a payout.
C38_RotationTerminates ==
    /\ \A g \in GroupIds :
          (g \in DOMAIN groups)
          ~> (g \in DOMAIN groups
              /\ (groups[g].is_complete \/ missed_contribution(g)))
    /\ [](\A g \in DOMAIN groups :
             groups[g].is_complete
             => /\ groups[g].state = "Complete"
                /\ groups[g].payout_index = Len(groups[g].members)
                /\ { m \in Address : has_received_payout(g, m) } =
                       Range(groups[g].members)
                /\ Cardinality(Range(groups[g].members)) = groups[g].payout_index)

\* a complete two-member group: two cycles with two contributions each,
\* both members paid
C38_Witness ==
    \E g \in DOMAIN groups :
        /\ groups[g].is_complete
        /\ Len(groups[g].members) = 2
        /\ Cardinality(cycle_records(g, 1)) = 2
        /\ Cardinality(cycle_records(g, 2)) = 2
        /\ \A m \in Range(groups[g].members) : has_received_payout(g, m)

====
